---- MODULE Spec2Model ----
(***************************************************************************)
(* Model of kfc-manager/bucket: the object store (domain.Storage), the     *)
(* bucket naming policy (validName), the SigV4 authenticator (domain.Auth) *)
(* and the HTTP middleware that composes them (server.middleware).         *)
(*                                                                         *)
(* Go strings and byte slices are sequences of blocks.  A block is a       *)
(* tuple: <<c>> is the single rune c (the file names the program fixes,    *)
(* "data", "body" and "metadata.json", are one block each),                *)
(* <<"sha256", d>> is the 32 byte SHA-256 digest of d, <<"hex", b>> the    *)
(* hex text of the bytes b, <<"hmac", k, d>> an HMAC-SHA256 value and      *)
(* <<"json", ...>> the JSON text of one metadata struct.  Digests are      *)
(* symbolic, hence injective: the model assumes SHA-256 and HMAC-SHA256    *)
(* have no collisions.                                                     *)
(***************************************************************************)
EXTENDS Integers, Sequences, FiniteSets, TLC

VARIABLES fs, last, track, created, calls, srv, au

vars == <<fs, last, track, created, calls, srv, au>>

(***************************************************************************)
(* Bounds of the model.                                                    *)
(***************************************************************************)
MaxObjects == 2
MaxShortName == 4
MaxUriLen == 4
NumProcs == 2

(***************************************************************************)
(* Strings.                                                                *)
(***************************************************************************)
Str(s) == [i \in 1..Len(s) |-> <<s[i]>>]

SLASH == <<"/">>
PERIOD == <<".">>

LowerAscii == {"a", "b", "c", "d", "e", "f", "g", "h", "i", "j", "k", "l", "m",
               "n", "o", "p", "q", "r", "s", "t", "u", "v", "w", "x", "y", "z"}
DigitSeq == <<"0", "1", "2", "3", "4", "5", "6", "7", "8", "9">>
DigitAscii == {DigitSeq[i] : i \in 1..Len(DigitSeq)}

\* unicode.IsLower / unicode.IsDigit on the runes the model uses; U+00E9 is
\* the two byte rune e-acute, U+00C3 and U+00A9 are its bytes read as runes.
IsLower(r) == r \in LowerAscii \cup {"U+00E9"}
IsDigit(r) == r \in DigitAscii

\* the runes of one block; the hex text of a digest is 64 hex digits
BlockRunes(b) == IF Len(b) = 1
                 THEN (IF b[1] = "data" THEN <<"d", "a", "t", "a">>
                       ELSE IF b[1] = "body" THEN <<"b", "o", "d", "y">>
                       ELSE IF b[1] = "metadata.json"
                       THEN <<"m", "e", "t", "a", "d", "a", "t", "a", ".", "j", "s", "o", "n">>
                       ELSE <<b[1]>>)
                 ELSE IF b[1] = "hex" THEN [i \in 1..64 |-> "0"]
                 ELSE [i \in 1..32 |-> "U+0000"]

\* the UTF-8 bytes of one block, each byte named by the rune of that value
Utf8(b) == IF b = <<"U+00E9">> THEN <<"U+00C3", "U+00A9">> ELSE BlockRunes(b)

RECURSIVE ByteLen(_)
ByteLen(s) == IF s = <<>> THEN 0 ELSE Len(Utf8(Head(s))) + ByteLen(Tail(s))

RECURSIVE SplitRec(_, _, _)
SplitRec(s, sep, cur) ==
    IF s = <<>> THEN <<cur>>
    ELSE IF Head(s) = sep THEN <<cur>> \o SplitRec(Tail(s), sep, <<>>)
    ELSE SplitRec(Tail(s), sep, Append(cur, Head(s)))

\* strings.Split with a one rune separator
Split(s, sep) == SplitRec(s, sep, <<>>)

HasPrefix(s, p) == Len(s) >= Len(p) /\ SubSeq(s, 1, Len(p)) = p
HasSuffix(s, p) == Len(s) >= Len(p) /\ SubSeq(s, Len(s) - Len(p) + 1, Len(s)) = p
Contains(s, p) == \E i \in 1..(Len(s) - Len(p) + 1) : SubSeq(s, i, i + Len(p) - 1) = p

(***************************************************************************)
(* domain.Error and Sha256Hash (src/domain/domain.go).                     *)
(***************************************************************************)
StatusBadRequest == 400
StatusNotFound == 404
StatusConflict == 409

Nil == [type |-> "nil", msg |-> "", Status |-> 0]
Error(msg, status) == [type |-> "Error", msg |-> msg, Status |-> status]
\* errors.New / fmt.Errorf / an *os.PathError: an error that is no *domain.Error
PlainError(msg) == [type |-> "error", msg |-> msg, Status |-> 0]

\* sha256.Sum256 and hex.EncodeToString
Sum256(data) == << <<"sha256", data>> >>
EncodeToString(bytes) == << <<"hex", bytes>> >>

Sha256Hash(data) == EncodeToString(Sum256(data))

(***************************************************************************)
(* The bucket naming policy, validName (src/unnamed/part_002:33-127).      *)
(***************************************************************************)
MinNameLen == 3
MaxNameLen == 63

\* the runes of a name, as `for _, char := range name` yields them
RECURSIVE Runes(_)
Runes(s) == IF s = <<>> THEN <<>> ELSE BlockRunes(Head(s)) \o Runes(Tail(s))

AllowedRune(r) == IsLower(r) \/ IsDigit(r) \/ r = "." \/ r = "-"

\* name[:1][0] and name[len(name)-1:][0]: the first and the last BYTE
FirstByte(s) == Utf8(Head(s))[1]
LastByte(s) == LET u == Utf8(s[Len(s)]) IN u[Len(u)]

DigitVal(d) == (CHOOSE i \in 1..Len(DigitSeq) : DigitSeq[i] = d) - 1

RECURSIVE DecimalVal(_)
DecimalVal(f) == IF f = <<>> THEN 0
                 ELSE 10 * DecimalVal(SubSeq(f, 1, Len(f) - 1)) + DigitVal(f[Len(f)][1])

\* one dotted-decimal field as net.ParseIP (go 1.24) reads it: digits only,
\* no leading zero, value at most 255
IPv4Field(f) == /\ Len(f) \in 1..3
                /\ \A i \in 1..Len(f) : Len(f[i]) = 1 /\ IsDigit(f[i][1])
                /\ (Len(f) > 1 => f[1] # <<"0">>)
                /\ DecimalVal(f) <= 255

\* net.ParseIP(name) != nil, for a name made of the allowed runes (no ':')
ParseIP(name) == LET f == Split(name, PERIOD) IN
                 Len(f) = 4 /\ \A i \in 1..4 : IPv4Field(f[i])

prefix == << [p |-> Str(<<"x", "n", "-", "-">>),
              msg |-> "bucket name can not begin with the prefix: 'xn--'"],
             [p |-> Str(<<"s", "t", "h", "r", "e", "e", "-">>),
              msg |-> "bucket name can not begin with the prefix: 'sthree-'"],
             [p |-> Str(<<"a", "m", "z", "n", "-", "s", "3", "-", "d", "e", "m", "o", "-">>),
              msg |-> "bucket name can not begin with the prefix: 'amzn-s3-demo-'"] >>

suffix == << [s |-> Str(<<"-", "s", "3", "a", "l", "i", "a", "s">>),
              msg |-> "bucket name can not end with the suffix: '-s3alias'"],
             [s |-> Str(<<"-", "-", "o", "l", "-", "s", "3">>),
              msg |-> "bucket name can not end with the suffix: '--ol-s3'"],
             [s |-> Str(<<"-", "-", "x", "-", "s", "3">>),
              msg |-> "bucket name can not end with the suffix: '--x-s3'"],
             [s |-> Str(<<"-", "-", "t", "a", "b", "l", "e", "-", "s", "3">>),
              msg |-> "bucket name can not end with the suffix: '--table-s3'"] >>

validName(name) ==
    IF ByteLen(name) < MinNameLen
    THEN Error("bucket name must be at least 3 characters long", StatusBadRequest)
    ELSE IF ByteLen(name) > MaxNameLen
    THEN Error("bucket name must be not longer than 63 characters", StatusBadRequest)
    ELSE IF \E i \in 1..Len(Runes(name)) : ~AllowedRune(Runes(name)[i])
    THEN Error("bucket name can consist only of lowercase letters, numbers, periods and hyphens",
               StatusBadRequest)
    ELSE IF ~IsLower(FirstByte(name)) /\ ~IsDigit(FirstByte(name))
    THEN Error("bucket name must begin with a letter or number", StatusBadRequest)
    ELSE IF ~IsLower(LastByte(name)) /\ ~IsDigit(LastByte(name))
    THEN Error("bucket name must end with a letter or number", StatusBadRequest)
    ELSE IF Contains(name, <<PERIOD, PERIOD>>)
    THEN Error("bucket name can not contain two adjacent periods", StatusBadRequest)
    ELSE IF ParseIP(name)
    THEN Error("bucket name can not be formatted as an IP address", StatusBadRequest)
    ELSE IF \E i \in 1..Len(prefix) : HasPrefix(name, prefix[i].p)
    THEN Error(prefix[CHOOSE i \in 1..Len(prefix) :
                        /\ HasPrefix(name, prefix[i].p)
                        /\ \A j \in 1..(i - 1) : ~HasPrefix(name, prefix[j].p)].msg,
               StatusBadRequest)
    ELSE IF \E i \in 1..Len(suffix) : HasSuffix(name, suffix[i].s)
    THEN Error(suffix[CHOOSE i \in 1..Len(suffix) :
                        /\ HasSuffix(name, suffix[i].s)
                        /\ \A j \in 1..(i - 1) : ~HasSuffix(name, suffix[j].s)].msg,
               StatusBadRequest)
    ELSE Nil

(***************************************************************************)
(* The filesystem under the store.  fs maps each existing absolute path (a *)
(* sequence of names) to its node.  The process runs in "/", where the     *)
(* image holds the binary /main and the directory /data                    *)
(* (src/unnamed/part_005:70-71, 90).                                       *)
(***************************************************************************)
DirNode == [dir |-> TRUE, data |-> <<>>]
FileNode(data) == [dir |-> FALSE, data |-> data]

IsDir(f, p) == p \in DOMAIN f /\ f[p].dir
Parent(p) == IF p = <<>> THEN <<>> ELSE SubSeq(p, 1, Len(p) - 1)
IsUnder(p, q) == Len(p) >= Len(q) /\ SubSeq(p, 1, Len(q)) = q

\* path resolution as the kernel does it, name by name, from "/"
RECURSIVE WalkRec(_, _, _)
WalkRec(f, cur, names) ==
    IF names = <<>> THEN [err |-> Nil, path |-> cur]
    ELSE IF ~IsDir(f, cur) THEN [err |-> PlainError("not a directory"), path |-> cur]
    ELSE IF Head(names) = <<>> \/ Head(names) = <<PERIOD>> THEN WalkRec(f, cur, Tail(names))
    ELSE IF Head(names) = <<PERIOD, PERIOD>> THEN WalkRec(f, Parent(cur), Tail(names))
    ELSE IF Append(cur, Head(names)) \in DOMAIN f
    THEN WalkRec(f, Append(cur, Head(names)), Tail(names))
    ELSE [err |-> PlainError("no such file or directory"), path |-> cur]

\* os.Stat
Stat(f, name) == WalkRec(f, <<>>, Split(name, SLASH))

\* os.MkdirAll: creates every missing directory of the path
RECURSIVE MkdirAllRec(_, _, _)
MkdirAllRec(f, cur, names) ==
    IF ~IsDir(f, cur) THEN [err |-> PlainError("not a directory"), fs |-> f]
    ELSE IF names = <<>> THEN [err |-> Nil, fs |-> f]
    ELSE IF Head(names) = <<>> \/ Head(names) = <<PERIOD>> THEN MkdirAllRec(f, cur, Tail(names))
    ELSE IF Head(names) = <<PERIOD, PERIOD>> THEN MkdirAllRec(f, Parent(cur), Tail(names))
    ELSE IF Append(cur, Head(names)) \in DOMAIN f
    THEN MkdirAllRec(f, Append(cur, Head(names)), Tail(names))
    ELSE MkdirAllRec((Append(cur, Head(names)) :> DirNode) @@ f,
                     Append(cur, Head(names)), Tail(names))

MkdirAll(f, name) == MkdirAllRec(f, <<>>, Split(name, SLASH))

\* os.WriteFile: creates or truncates the file in an existing directory
WriteFile(f, name, data) ==
    LET names == Split(name, SLASH)
        dir == WalkRec(f, <<>>, SubSeq(names, 1, Len(names) - 1))
        file == Append(dir.path, names[Len(names)])
    IN  IF dir.err # Nil THEN [err |-> dir.err, fs |-> f]
        ELSE IF ~IsDir(f, dir.path) THEN [err |-> PlainError("not a directory"), fs |-> f]
        ELSE IF IsDir(f, file) THEN [err |-> PlainError("is a directory"), fs |-> f]
        ELSE [err |-> Nil, fs |-> (file :> FileNode(data)) @@ f]

\* os.ReadFile
ReadFile(f, name) ==
    LET st == Stat(f, name)
    IN  IF st.err # Nil THEN [err |-> st.err, data |-> <<>>]
        ELSE IF f[st.path].dir THEN [err |-> PlainError("is a directory"), data |-> <<>>]
        ELSE [err |-> Nil, data |-> f[st.path].data]

\* os.RemoveAll: removes the path and everything below it; a missing path
\* is no error
RemoveAll(f, name) ==
    LET st == Stat(f, name)
    IN  IF st.err = PlainError("no such file or directory") THEN [err |-> Nil, fs |-> f]
        ELSE IF st.err # Nil THEN [err |-> st.err, fs |-> f]
        ELSE [err |-> Nil,
              fs |-> [p \in {q \in DOMAIN f : ~IsUnder(q, st.path)} |-> f[p]]]

(***************************************************************************)
(* domain.Storage (src/unnamed/part_002).                                  *)
(***************************************************************************)
\* Storage.path, "./data"
StoragePath == <<PERIOD, SLASH, <<"data">> >>

BodyFile == << <<"body">> >>
MetaFile == << <<"metadata.json">> >>

existPath(f, path) == Stat(f, StoragePath \o <<SLASH>> \o path).err = Nil

\* json.Marshal of a metadata struct and json.Unmarshal into one
Marshal(meta) == << <<"json", meta.ContentHash, meta.ContentSize,
                      meta.OriginalKey, meta.LastModified>> >>
IsMetadataJson(b) == Len(b) = 1 /\ Len(b[1]) = 5 /\ b[1][1] = "json"
Unmarshal(b) == [ContentHash |-> b[1][2], ContentSize |-> b[1][3],
                 OriginalKey |-> b[1][4], LastModified |-> b[1][5]]

\* NewBucket as it would be if it validated the name after creating the
\* directory
NewBucketValidatesLast(f, name) ==
    IF existPath(f, name)
    THEN [err |-> Error("requested bucket name is not available", StatusConflict), fs |-> f]
    ELSE IF MkdirAll(f, StoragePath \o <<SLASH>> \o name).err # Nil
    THEN MkdirAll(f, StoragePath \o <<SLASH>> \o name)
    ELSE [err |-> validName(name), fs |-> MkdirAll(f, StoragePath \o <<SLASH>> \o name).fs]

NewBucket(f, name) ==
    IF validName(name) # Nil THEN [err |-> validName(name), fs |-> f]
    ELSE IF existPath(f, name)
    THEN [err |-> Error("requested bucket name is not available", StatusConflict), fs |-> f]
    ELSE MkdirAll(f, StoragePath \o <<SLASH>> \o name)

ObjectDir(bucket, key) == StoragePath \o <<SLASH>> \o bucket \o <<SLASH>> \o Sha256Hash(key)

ErrBucketNotFound == Error("requested bucket does not exist", StatusNotFound)
ErrObjectNotFound == Error("object under requested key does not exist", StatusNotFound)
ErrChecksum == PlainError("content checksum mismatch")

\* Get as it would be without the comparison of the checksums
GetWithoutChecksum(f, bucket, key) ==
    LET path == ObjectDir(bucket, key)
        body == ReadFile(f, path \o <<SLASH>> \o BodyFile)
        b == ReadFile(f, path \o <<SLASH>> \o MetaFile)
    IN  IF ~existPath(f, bucket) THEN [err |-> ErrBucketNotFound, out |-> <<>>]
        ELSE IF ~existPath(f, bucket \o <<SLASH>> \o Sha256Hash(key))
        THEN [err |-> ErrObjectNotFound, out |-> <<>>]
        ELSE IF body.err # Nil
        THEN [err |-> PlainError("could not read data file"), out |-> <<>>]
        ELSE IF b.err # Nil
        THEN [err |-> PlainError("could not read metadata file"), out |-> <<>>]
        ELSE IF ~IsMetadataJson(b.data)
        THEN [err |-> PlainError("could not unmarshal metadata.json content"), out |-> <<>>]
        ELSE [err |-> Nil, out |-> body.data]

Get(f, bucket, key) ==
    LET path == ObjectDir(bucket, key)
        body == ReadFile(f, path \o <<SLASH>> \o BodyFile)
        b == ReadFile(f, path \o <<SLASH>> \o MetaFile)
    IN  IF ~existPath(f, bucket) THEN [err |-> ErrBucketNotFound, out |-> <<>>]
        ELSE IF ~existPath(f, bucket \o <<SLASH>> \o Sha256Hash(key))
        THEN [err |-> ErrObjectNotFound, out |-> <<>>]
        ELSE IF body.err # Nil
        THEN [err |-> PlainError("could not read data file"), out |-> <<>>]
        ELSE IF b.err # Nil
        THEN [err |-> PlainError("could not read metadata file"), out |-> <<>>]
        ELSE IF ~IsMetadataJson(b.data)
        THEN [err |-> PlainError("could not unmarshal metadata.json content"), out |-> <<>>]
        ELSE IF Sha256Hash(body.data) # Unmarshal(b.data).ContentHash
        THEN [err |-> ErrChecksum, out |-> <<>>]
        ELSE [err |-> Nil, out |-> body.data]

\* Put as it would be if it hashed the key instead of the body
PutHashesKey(f, bucket, key, body, now) ==
    LET dir == ObjectDir(bucket, key)
        made == MkdirAll(f, dir)
        meta == Marshal([ContentHash |-> Sha256Hash(key), ContentSize |-> ByteLen(body),
                         OriginalKey |-> key, LastModified |-> now])
        wmeta == WriteFile(made.fs, dir \o <<SLASH>> \o MetaFile, meta)
        wbody == WriteFile(wmeta.fs, dir \o <<SLASH>> \o BodyFile, body)
    IN  IF ~existPath(f, bucket) THEN [err |-> ErrBucketNotFound, fs |-> f]
        ELSE IF made.err # Nil THEN made
        ELSE IF wmeta.err # Nil
        THEN [err |-> PlainError("could not write metadata.json"), fs |-> wmeta.fs]
        ELSE wbody

\* Put as it would be with os.Mkdir in place of os.MkdirAll
PutWithMkdir(f, bucket, key, body, now) ==
    LET dir == ObjectDir(bucket, key)
        made == IF existPath(f, bucket \o <<SLASH>> \o Sha256Hash(key))
                THEN [err |-> PlainError("file exists"), fs |-> f]
                ELSE MkdirAll(f, dir)
        meta == Marshal([ContentHash |-> Sha256Hash(body), ContentSize |-> ByteLen(body),
                         OriginalKey |-> key, LastModified |-> now])
        wmeta == WriteFile(made.fs, dir \o <<SLASH>> \o MetaFile, meta)
        wbody == WriteFile(wmeta.fs, dir \o <<SLASH>> \o BodyFile, body)
    IN  IF ~existPath(f, bucket) THEN [err |-> ErrBucketNotFound, fs |-> f]
        ELSE IF made.err # Nil THEN made
        ELSE IF wmeta.err # Nil
        THEN [err |-> PlainError("could not write metadata.json"), fs |-> wmeta.fs]
        ELSE wbody

Put(f, bucket, key, body, now) ==
    LET dir == ObjectDir(bucket, key)
        made == MkdirAll(f, dir)
        meta == Marshal([ContentHash |-> Sha256Hash(body), ContentSize |-> ByteLen(body),
                         OriginalKey |-> key, LastModified |-> now])
        wmeta == WriteFile(made.fs, dir \o <<SLASH>> \o MetaFile, meta)
        wbody == WriteFile(wmeta.fs, dir \o <<SLASH>> \o BodyFile, body)
    IN  IF ~existPath(f, bucket) THEN [err |-> ErrBucketNotFound, fs |-> f]
        ELSE IF made.err # Nil THEN made
        ELSE IF wmeta.err # Nil
        THEN [err |-> PlainError("could not write metadata.json"), fs |-> wmeta.fs]
        ELSE wbody

\* Delete as it would be if it removed the body file only
DeleteRemovesBodyOnly(f, bucket, key) ==
    IF ~existPath(f, bucket) THEN [err |-> ErrBucketNotFound, fs |-> f]
    ELSE IF ~existPath(f, bucket \o <<SLASH>> \o Sha256Hash(key))
    THEN [err |-> ErrObjectNotFound, fs |-> f]
    ELSE RemoveAll(f, ObjectDir(bucket, key) \o <<SLASH>> \o BodyFile)

Delete(f, bucket, key) ==
    IF ~existPath(f, bucket) THEN [err |-> ErrBucketNotFound, fs |-> f]
    ELSE IF ~existPath(f, bucket \o <<SLASH>> \o Sha256Hash(key))
    THEN [err |-> ErrObjectNotFound, fs |-> f]
    ELSE RemoveAll(f, ObjectDir(bucket, key))

(***************************************************************************)
(* domain.Auth, the SigV4 authenticator (src/unnamed/part_001).            *)
(* Words the protocol fixes ("AWS4-HMAC-SHA256", "Credential", a header    *)
(* name, a method) are one block each.                                     *)
(***************************************************************************)
SPACE == <<" ">>
COMMA == <<",">>
EQUALS == <<"=">>
SEMICOLON == <<";">>
COLON == <<":">>
NEWLINE == <<"\n">>
QUESTION == <<"?">>
AMPERSAND == <<"&">>

signAlgorithm == << <<"AWS4-HMAC-SHA256">> >>

\* the bytes the model sorts, in the order of their values
ByteOrder == <<"&", "-", ".", "/", "0", "1", "2", "3", "4", "5", "6", "7", "8", "9",
               "=", "?", "a", "b", "c", "d", "e", "f", "g", "h", "i", "j", "k", "l", "m",
               "n", "o", "p", "q", "r", "s", "t", "u", "v", "w", "x", "y", "z">>
ByteValue(r) == CHOOSE i \in 1..Len(ByteOrder) : ByteOrder[i] = r

RECURSIVE Bytes(_)
Bytes(s) == IF s = <<>> THEN <<>> ELSE Utf8(Head(s)) \o Bytes(Tail(s))

\* a < b for Go strings: bytewise
RECURSIVE BytesLess(_, _)
BytesLess(a, b) ==
    IF b = <<>> THEN FALSE
    ELSE IF a = <<>> THEN TRUE
    ELSE IF Head(a) = Head(b) THEN BytesLess(Tail(a), Tail(b))
    ELSE ByteValue(Head(a)) < ByteValue(Head(b))

StringLess(a, b) == BytesLess(Bytes(a), Bytes(b))

\* sort.Strings
RECURSIVE SortStrings(_)
SortStrings(parts) ==
    IF parts = <<>> THEN <<>>
    ELSE LET m == CHOOSE i \in 1..Len(parts) :
                      \A j \in 1..Len(parts) : ~StringLess(parts[j], parts[i])
         IN  <<parts[m]>> \o SortStrings(SubSeq(parts, 1, m - 1) \o SubSeq(parts, m + 1, Len(parts)))

IsSpace(b) == b \in {SPACE, NEWLINE, <<"\t">>}

RECURSIVE TrimLeft(_)
TrimLeft(s) == IF s # <<>> /\ IsSpace(Head(s)) THEN TrimLeft(Tail(s)) ELSE s

RECURSIVE TrimRight(_)
TrimRight(s) == IF s # <<>> /\ IsSpace(s[Len(s)]) THEN TrimRight(SubSeq(s, 1, Len(s) - 1)) ELSE s

\* strings.TrimSpace
TrimSpace(s) == TrimRight(TrimLeft(s))

\* strings.SplitN(s, sep, 2)
SplitN2(s, sep) ==
    IF \E i \in 1..Len(s) : s[i] = sep
    THEN LET i == CHOOSE i \in 1..Len(s) : s[i] = sep /\ \A j \in 1..(i - 1) : s[j] # sep
         IN  <<SubSeq(s, 1, i - 1), SubSeq(s, i + 1, Len(s))>>
    ELSE <<s>>

\* a Go map lookup: the zero value for a missing key
Lookup(m, key) == IF key \in DOMAIN m THEN m[key] ELSE <<>>

\* the kv map of parseAuthHeader: a later field overrides an earlier one
FieldMap(fields, key) ==
    LET parts == [i \in 1..Len(fields) |-> SplitN2(TrimSpace(fields[i]), EQUALS)]
        hits == {i \in 1..Len(fields) : Len(parts[i]) = 2 /\ parts[i][1] = key}
    IN  IF hits = {} THEN <<>>
        ELSE parts[CHOOSE i \in hits : \A j \in hits : j <= i][2]

ErrAlgorithm == PlainError("signing algorithm not supported")
ErrAccessKey == PlainError("invalid access key")
ErrMissing == PlainError("authorization header missing")
ErrSignature == PlainError("invalid signature")

NoAuthHeader == [credential |-> <<>>, signedHeaders |-> <<>>, signature |-> <<>>]

parseAuthHeader(a, header) ==
    LET fields == Split(SubSeq(header, Len(signAlgorithm) + 2, Len(header)), COMMA)
        cred == FieldMap(fields, << <<"Credential">> >>)
    IN  IF ~HasPrefix(header, signAlgorithm \o <<SPACE>>)
        THEN [err |-> ErrAlgorithm, header |-> NoAuthHeader]
        ELSE IF ~HasPrefix(cred, a.accessKey \o <<SLASH>>)
        THEN [err |-> ErrAccessKey, header |-> NoAuthHeader]
        ELSE [err |-> Nil,
              header |-> [credential |-> SubSeq(cred, Len(a.accessKey) + 2, Len(cred)),
                          signedHeaders |-> FieldMap(fields, << <<"SignedHeaders">> >>),
                          signature |-> FieldMap(fields, << <<"Signature">> >>)]]

hmacHash(key, data) == << <<"hmac", key, data>> >>

RECURSIVE FoldHmac(_, _)
FoldHmac(key, values) ==
    IF values = <<>> THEN key ELSE FoldHmac(hmacHash(key, Head(values)), Tail(values))

signingKey(a, cred) == FoldHmac(<< <<"AWS4">> >> \o a.secretKey, Split(cred, SLASH))

canonicalUri(uri) == IF Len(uri) < 1 THEN <<SLASH>> ELSE Split(uri, QUESTION)[1]

RECURSIVE JoinWithAmpersand(_)
JoinWithAmpersand(parts) ==
    IF parts = <<>> THEN <<>> ELSE Head(parts) \o <<AMPERSAND>> \o JoinWithAmpersand(Tail(parts))

canonicalQuery(uri) ==
    LET parts == Split(uri, QUESTION)
        query == IF Len(parts) > 1 THEN parts[2] ELSE <<>>
        str == JoinWithAmpersand(SortStrings(Split(query, AMPERSAND)))
    IN  IF Len(str) > 0 THEN SubSeq(str, 1, Len(str) - 1) ELSE str

RECURSIVE canonicalHeaders(_, _)
canonicalHeaders(headers, signed) ==
    IF signed = <<>> THEN <<>>
    ELSE Head(signed) \o <<COLON>> \o TrimSpace(Lookup(headers, Head(signed))) \o <<NEWLINE>>
         \o canonicalHeaders(headers, Tail(signed))

\* canonicalRequest as it would be without the canonical header block
canonicalRequestWithoutHeaders(method, uri, headers, signed, body) ==
    method \o <<NEWLINE>> \o canonicalUri(uri) \o <<NEWLINE>> \o canonicalQuery(uri)
    \o <<NEWLINE>> \o <<NEWLINE>>
    \o signed \o <<NEWLINE>> \o body

canonicalRequest(method, uri, headers, signed, body) ==
    method \o <<NEWLINE>> \o canonicalUri(uri) \o <<NEWLINE>> \o canonicalQuery(uri)
    \o <<NEWLINE>> \o canonicalHeaders(headers, Split(signed, SEMICOLON)) \o <<NEWLINE>>
    \o signed \o <<NEWLINE>> \o body

strToSign(algo, date, cred, req) ==
    algo \o <<NEWLINE>> \o date \o <<NEWLINE>> \o cred \o <<NEWLINE>> \o Sha256Hash(req)

HeaderAuthorization == << <<"authorization">> >>
HeaderDate == << <<"x-amz-date">> >>
HeaderContentSha == << <<"x-amz-content-sha256">> >>
HeaderHost == << <<"host">> >>

\* the signature Validate computes for a parsed authorization header
\* (part_001:145-149)
ComputedSignature(a, method, uri, headers, body, parsed) ==
    EncodeToString(
        hmacHash(signingKey(a, parsed.credential),
                 strToSign(signAlgorithm, Lookup(headers, HeaderDate), parsed.credential,
                           canonicalRequest(method, uri, headers, parsed.signedHeaders, body))))

\* Validate as it would be if it accepted every signature
ValidateAcceptsAnySignature(a, method, uri, headers, body) ==
    LET parsed == parseAuthHeader(a, Lookup(headers, HeaderAuthorization))
    IN  IF Len(Lookup(headers, HeaderAuthorization)) < 1 THEN ErrMissing
        ELSE IF parsed.err # Nil THEN parsed.err
        ELSE Nil

Validate(a, method, uri, headers, body) ==
    LET parsed == parseAuthHeader(a, Lookup(headers, HeaderAuthorization))
    IN  IF Len(Lookup(headers, HeaderAuthorization)) < 1 THEN ErrMissing
        ELSE IF parsed.err # Nil THEN parsed.err
        ELSE IF ComputedSignature(a, method, uri, headers, body, parsed.header)
                # parsed.header.signature
        THEN ErrSignature
        ELSE Nil

(***************************************************************************)
(* Requests as a SigV4 client builds them.  The authorization header is    *)
(* described by four choices: is it present, does it name the algorithm,   *)
(* does its Credential carry the configured access key, and was its        *)
(* Signature made with the configured secret key over this request.        *)
(***************************************************************************)
\* the credential pair of the process (src/unnamed/part_005:86-89)
TheAuth == [accessKey |-> << <<"ACCESS_KEY">> >>, secretKey |-> << <<"SECRET_KEY">> >>]
OtherAuth == [accessKey |-> << <<"OTHER_ACCESS_KEY">> >>, secretKey |-> << <<"OTHER_SECRET_KEY">> >>]

Scope == << <<"20250601">>, SLASH, <<"us-east-1">>, SLASH, <<"s3">>, SLASH, <<"aws4_request">> >>
OtherScope == << <<"20250602">>, SLASH, <<"us-east-1">>, SLASH, <<"s3">>, SLASH, <<"aws4_request">> >>

\* the Signature a client holding secretKey sends for a request
ClientSignature(secretKey, scope, method, uri, headers, signed, body) ==
    EncodeToString(
        hmacHash(signingKey([accessKey |-> <<>>, secretKey |-> secretKey], scope),
                 strToSign(signAlgorithm, Lookup(headers, HeaderDate), scope,
                           canonicalRequest(method, uri, headers, signed, body))))

\* the text of the authorization header
AuthorizationText(c, scope, method, uri, headers, body) ==
    (CASE c.algo = "ok" -> signAlgorithm \o <<SPACE>>
       [] c.algo = "other" -> << <<"AWS4-HMAC-SHA1">>, SPACE >>
       [] c.algo = "nospace" -> signAlgorithm)
    \o (CASE c.key = "ok" -> << <<"Credential">>, EQUALS >> \o TheAuth.accessKey
                             \o <<SLASH>> \o scope \o <<COMMA, SPACE>>
          [] c.key = "other" -> << <<"Credential">>, EQUALS >> \o OtherAuth.accessKey
                                \o <<SLASH>> \o scope \o <<COMMA, SPACE>>
          [] c.key = "missing" -> <<>>)
    \o << <<"SignedHeaders">>, EQUALS >> \o c.signed \o <<COMMA, SPACE>>
    \o << <<"Signature">>, EQUALS >>
    \o ClientSignature(IF c.sig = "ok" THEN TheAuth.secretKey ELSE OtherAuth.secretKey,
                       scope, method, uri, headers, c.signed, body)

\* the header map the middleware hands to Validate
RequestHeaders(c, scope, method, uri, plain, body) ==
    IF c.present = "absent" THEN plain
    ELSE (HeaderAuthorization :>
             (IF c.present = "empty" THEN <<>>
              ELSE AuthorizationText(c, scope, method, uri, plain, body))) @@ plain

AuthChoices == [present : {"absent", "empty", "present"}, algo : {"ok", "other", "nospace"},
                key : {"ok", "other", "missing"}, sig : {"ok", "other"},
                signed : {HeaderHost \o <<SEMICOLON>> \o HeaderDate, HeaderHost}]

\* the outcome the choices call for, in the order Validate is to decide it
ExpectedOutcome(c) ==
    IF c.present # "present" THEN ErrMissing
    ELSE IF c.algo # "ok" THEN ErrAlgorithm
    ELSE IF c.key # "ok" THEN ErrAccessKey
    ELSE IF c.sig # "ok" THEN ErrSignature
    ELSE Nil

UriObject == <<SLASH>> \o Str(<<"a", "b", "c">>) \o <<SLASH>> \o Str(<<"k">>)
UriQuery == UriObject \o <<QUESTION>> \o Str(<<"b", "=", "1", "&", "a", "=", "2">>)
Uris == {UriObject, UriQuery}
Methods == {<< <<"GET">> >>, << <<"PUT">> >>}

HeaderExtra == << <<"x-extra">> >>
HeaderValues == {Str(<<"v">>), Str(<<" ", "v">>), Str(<<"w">>)}
PlainHeaders == (HeaderHost :> Str(<<"v">>)) @@ (HeaderDate :> Str(<<"v">>))
                @@ (HeaderContentSha :> Sha256Hash(<<>>)) @@ (HeaderExtra :> Str(<<"v">>))

NoChange == [name |-> <<>>, value |-> <<>>]
NoRun == [err |-> Nil, reached |-> FALSE, signature |-> <<>>, request |-> <<>>]

AuIdle == [pc |-> "idle", choice |-> <<>>, method |-> <<>>, uri |-> <<>>, headers |-> <<>>,
           body |-> <<>>, change |-> NoChange, first |-> NoRun, second |-> NoRun]

(***************************************************************************)
(* The authenticator applied to one request, and applied again after one   *)
(* header of that request got another value.                               *)
(***************************************************************************)
\* what one call of Validate decides and signs
RunValidate(method, uri, headers, body) ==
    LET parsed == parseAuthHeader(TheAuth, Lookup(headers, HeaderAuthorization))
        reached == Len(Lookup(headers, HeaderAuthorization)) >= 1 /\ parsed.err = Nil
    IN  [err |-> Validate(TheAuth, method, uri, headers, body),
         reached |-> reached,
         signature |-> IF reached
                       THEN ComputedSignature(TheAuth, method, uri, headers, body, parsed.header)
                       ELSE <<>>,
         request |-> IF reached
                     THEN canonicalRequest(method, uri, headers, parsed.header.signedHeaders, body)
                     ELSE <<>>]

AuthInputs ==
    {[AuIdle EXCEPT !.pc = "ready", !.choice = c, !.method = m, !.uri = u, !.body = Sha256Hash(<<>>),
                    !.headers = RequestHeaders(c, Scope, m, u, PlainHeaders, Sha256Hash(<<>>))] :
        c \in AuthChoices, m \in Methods, u \in Uris}


(***************************************************************************)
(* Inputs of the store operations.                                         *)
(***************************************************************************)
KeyK == Str(<<"k">>)
KeyJ == Str(<<"j">>)
Keys == {KeyK, KeyJ}
Bodies == {<<>>, Str(<<"x">>)}
\* time.Now().UTC().Unix(): LastModified is written and never read back, so
\* one clock reading stands for all of them
Times == {"now"}

NameAbc == Str(<<"a", "b", "c">>)
\* a name with a lowercase rune outside ASCII
NameNonAscii == Str(<<"a", "U+00E9", "c">>)
NameEmpty == <<>>
NameAbcSlash == NameAbc \o <<SLASH>>
\* abc/<hex sha256 of "k">/..
NameThroughObject == NameAbc \o <<SLASH>> \o Sha256Hash(KeyK) \o <<SLASH, PERIOD, PERIOD>>

\* the names NewBucket is called with, and the bucket arguments of Put, Get
\* and Delete
Names == {NameAbc, NameNonAscii, NameEmpty, NameAbcSlash, NameThroughObject}
Buckets == {NameAbc, NameEmpty, NameAbcSlash, NameThroughObject}

IsDigestName(c) == Len(c) = 1 /\ Len(c[1]) = 2 /\ c[1][1] = "hex"
ObjectDirs(f) == {p \in DOMAIN f : Len(p) >= 1 /\ f[p].dir /\ IsDigestName(p[Len(p)])}

NoTrack == [kind |-> "none", bucket |-> <<>>, body |-> <<>>]
NoCall == [op |-> "none", bucket |-> <<>>, key |-> <<>>, body |-> <<>>,
           err |-> Nil, out |-> <<>>, prev |-> <<>>]
\* a goroutine that is in no call of the store
Idle == [pc |-> "idle", op |-> "", bucket |-> <<>>, key |-> <<>>, body |-> <<>>,
         read |-> <<>>, names |-> {}, err |-> Nil, out |-> <<>>, raced |-> FALSE]
Procs == 1..NumProcs
NoCalls == [proc |-> [p \in Procs |-> Idle], puts |-> {}]

SrvIdle == [pc |-> "idle", route |-> "", Method |-> <<>>, name |-> <<>>, key |-> <<>>,
            RequestURI |-> <<>>, Host |-> <<>>, Header |-> <<>>, sent |-> <<>>,
            readFails |-> FALSE, choice |-> <<>>, claimed |-> "",
            body |-> <<>>, headers |-> <<>>, bodyHash |-> <<>>, err |-> Nil,
            storeErr |-> Nil, trace |-> <<>>, status |-> 0, written |-> <<>>]

(***************************************************************************)
(* The store driven through its API, one call at a time.                   *)
(*   last     the latest call and what it returned; prev holds the body of *)
(*            the call right before it when that was a successful Put with *)
(*            the same bucket and key                                      *)
(*   track    for the key KeyK: the bucket argument and body of the latest *)
(*            successful Put, or the bucket argument of the latest         *)
(*            successful Delete, as long as no other Put, no other         *)
(*            successful Delete and no corruption touched that key         *)
(*   created  the names NewBucket has created                              *)
(***************************************************************************)
InitFs == (<<>> :> DirNode) @@ (<< << <<"data">> >> >> :> DirNode)

Init == /\ fs = InitFs
        /\ last = NoCall
        /\ track = NoTrack
        /\ created = {}
        /\ calls = NoCalls
        /\ srv = SrvIdle
        /\ au = AuIdle

PrevPut(bucket, key) ==
    IF last.op = "Put" /\ last.err = Nil /\ last.bucket = bucket /\ last.key = key
    THEN <<last.body>> ELSE <<>>

CallNewBucket(name) ==
    \E r \in {NewBucket(fs, name)} :
        /\ fs' = r.fs
        /\ last' = [op |-> "NewBucket", bucket |-> name, key |-> <<>>, body |-> <<>>,
                    err |-> r.err, out |-> <<>>, prev |-> <<>>]
        /\ created' = IF r.err = Nil THEN created \cup {name} ELSE created
        /\ UNCHANGED <<track, calls, srv, au>>

CallPut(bucket, key, body, now) ==
    \E r \in {Put(fs, bucket, key, body, now)} :
        /\ Cardinality(ObjectDirs(r.fs)) <= MaxObjects
        /\ fs' = r.fs
        /\ last' = [op |-> "Put", bucket |-> bucket, key |-> key, body |-> body,
                    err |-> r.err, out |-> <<>>, prev |-> PrevPut(bucket, key)]
        /\ track' = IF key # KeyK THEN track
                    ELSE IF r.err # Nil THEN NoTrack
                    ELSE [kind |-> "put", bucket |-> bucket, body |-> body]
        /\ UNCHANGED <<created, calls, srv, au>>

CallGet(bucket, key) ==
    \E r \in {Get(fs, bucket, key)} :
        /\ last' = [op |-> "Get", bucket |-> bucket, key |-> key, body |-> <<>>,
                    err |-> r.err, out |-> r.out, prev |-> <<>>]
        /\ UNCHANGED <<fs, track, created, calls, srv, au>>

CallDelete(bucket, key) ==
    \E r \in {Delete(fs, bucket, key)} :
        /\ fs' = r.fs
        /\ last' = [op |-> "Delete", bucket |-> bucket, key |-> key, body |-> <<>>,
                    err |-> r.err, out |-> <<>>, prev |-> <<>>]
        /\ track' = IF key # KeyK \/ r.err # Nil THEN track
                    ELSE [kind |-> "del", bucket |-> bucket, body |-> <<>>]
        /\ UNCHANGED <<created, calls, srv, au>>

\* the body file of an object is changed behind the store's back
Corrupt(p, data) ==
    /\ p \in DOMAIN fs
    /\ ~fs[p].dir
    /\ p[Len(p)] = BodyFile
    /\ data # fs[p].data
    /\ fs' = [fs EXCEPT ![p] = FileNode(data)]
    /\ last' = [op |-> "Corrupt", bucket |-> <<>>, key |-> <<>>, body |-> data,
                err |-> Nil, out |-> <<>>, prev |-> <<>>]
    /\ track' = IF <<p[Len(p) - 1]>> = Sha256Hash(KeyK) THEN NoTrack ELSE track
    /\ UNCHANGED <<created, calls, srv, au>>

Next == \/ \E name \in Names : CallNewBucket(name)
        \/ \E bucket \in Buckets, key \in Keys, body \in Bodies, now \in Times :
              CallPut(bucket, key, body, now)
        \/ \E bucket \in Buckets, key \in Keys : CallGet(bucket, key)
        \/ \E bucket \in Buckets, key \in Keys : CallDelete(bucket, key)

Spec == Init /\ [][Next]_vars

\* the same store with one bucket name, and bodies changed out of band
NextOutOfBand ==
    \/ CallNewBucket(NameAbc)
    \/ \E key \in Keys, body \in Bodies, now \in Times : CallPut(NameAbc, key, body, now)
    \/ \E key \in Keys : CallGet(NameAbc, key)
    \/ \E key \in Keys : CallDelete(NameAbc, key)
    \/ \E p \in DOMAIN fs, data \in Bodies : Corrupt(p, data)

SpecOutOfBand == Init /\ [][NextOutOfBand]_vars

(***************************************************************************)
(* The store under concurrent calls.  net/http runs each handler in its    *)
(* own goroutine and Storage holds no lock, so the calls of the goroutines *)
(* in Procs interleave system call by system call.  One os.Stat,           *)
(* os.MkdirAll, os.ReadFile or os.WriteFile is one step; os.RemoveAll      *)
(* lists the directory, unlinks the entries one by one and then removes    *)
(* the directory.                                                          *)
(***************************************************************************)
Proc(p) == calls.proc[p]
SetProc(p, rec) == [calls EXCEPT !.proc[p] = rec]
Return(p, err, out) == [Proc(p) EXCEPT !.pc = "done", !.err = err, !.out = out]
SameObject(p, q) == Proc(p).bucket = Proc(q).bucket /\ Proc(p).key = Proc(q).key

\* goroutine p returns rec, or moves on as rec, after changing a file of the
\* object; a Get that has read the body is then no longer between the two
\* writes of one Put
Changed(p, rec) ==
    [calls EXCEPT !.proc = [q \in Procs |->
                               IF q = p THEN rec
                               ELSE IF Proc(q).op = "Get" THEN [Proc(q) EXCEPT !.raced = FALSE]
                               ELSE Proc(q)]]

Children(f, dir) == {q \in DOMAIN f : Len(q) = Len(dir) + 1 /\ IsUnder(q, dir)}
Without(f, gone) == [q \in DOMAIN f \ gone |-> f[q]]

FirstStep == [NewBucket |-> "checkName", Put |-> "checkBucket", Get |-> "checkBucket",
              Delete |-> "checkBucket"]

\* a goroutine enters a call of the store
Start(p, op, bucket, key, body) ==
    /\ Proc(p).pc = "idle"
    /\ calls' = [proc |-> [calls.proc EXCEPT ![p] =
                              [Idle EXCEPT !.pc = FirstStep[op], !.op = op, !.bucket = bucket,
                                           !.key = key, !.body = body]],
                 puts |-> IF op = "Put" THEN calls.puts \cup {body} ELSE calls.puts]
    /\ UNCHANGED <<fs, last, track, created, srv, au>>

\* the call returns to the handler
Finish(p) ==
    /\ Proc(p).pc = "done"
    /\ calls' = SetProc(p, Idle)
    /\ UNCHANGED <<fs, last, track, created, srv, au>>

\* src/unnamed/part_002:135-143
NewBucketCheck(p) ==
    /\ Proc(p).op = "NewBucket" /\ Proc(p).pc = "checkName"
    /\ calls' =
          IF validName(Proc(p).bucket) # Nil
          THEN SetProc(p, Return(p, validName(Proc(p).bucket), <<>>))
          ELSE IF existPath(fs, Proc(p).bucket)
          THEN SetProc(p, Return(p, Error("requested bucket name is not available",
                                          StatusConflict), <<>>))
          ELSE [calls EXCEPT !.proc =
                   [q \in Procs |->
                       IF q = p
                       THEN [Proc(p) EXCEPT !.pc = "mkdir",
                                !.raced = \E r \in Procs \ {p} :
                                             /\ Proc(r).op = "NewBucket" /\ Proc(r).pc = "mkdir"
                                             /\ Proc(r).bucket = Proc(p).bucket]
                       ELSE IF /\ Proc(q).op = "NewBucket" /\ Proc(q).pc = "mkdir"
                               /\ Proc(q).bucket = Proc(p).bucket
                       THEN [Proc(q) EXCEPT !.raced = TRUE]
                       ELSE Proc(q)]]
    /\ UNCHANGED <<fs, last, track, created, srv, au>>

\* src/unnamed/part_002:145-149
NewBucketMkdir(p) ==
    /\ Proc(p).op = "NewBucket" /\ Proc(p).pc = "mkdir"
    /\ \E r \in {MkdirAll(fs, StoragePath \o <<SLASH>> \o Proc(p).bucket)} :
          /\ fs' = r.fs
          /\ calls' = SetProc(p, Return(p, r.err, <<>>))
    /\ UNCHANGED <<last, track, created, srv, au>>

\* src/unnamed/part_002:160-165, 198-203, 230-235
CheckBucket(p) ==
    /\ Proc(p).op \in {"Put", "Get", "Delete"} /\ Proc(p).pc = "checkBucket"
    /\ calls' = IF ~existPath(fs, Proc(p).bucket)
                THEN SetProc(p, Return(p, ErrBucketNotFound, <<>>))
                ELSE SetProc(p, [Proc(p) EXCEPT !.pc = IF Proc(p).op = "Put" THEN "mkdir"
                                                       ELSE "checkObject"])
    /\ UNCHANGED <<fs, last, track, created, srv, au>>

\* src/unnamed/part_002:167-173, 237-243
CheckObject(p) ==
    /\ Proc(p).op \in {"Get", "Delete"} /\ Proc(p).pc = "checkObject"
    /\ calls' = IF ~existPath(fs, Proc(p).bucket \o <<SLASH>> \o Sha256Hash(Proc(p).key))
                THEN SetProc(p, Return(p, ErrObjectNotFound, <<>>))
                ELSE SetProc(p, [Proc(p) EXCEPT !.pc = IF Proc(p).op = "Get" THEN "readBody"
                                                       ELSE "remove"])
    /\ UNCHANGED <<fs, last, track, created, srv, au>>

\* src/unnamed/part_002:205-211
PutMkdir(p) ==
    /\ Proc(p).op = "Put" /\ Proc(p).pc = "mkdir"
    /\ \E r \in {MkdirAll(fs, ObjectDir(Proc(p).bucket, Proc(p).key))} :
          /\ fs' = r.fs
          /\ calls' = IF r.err # Nil THEN SetProc(p, Return(p, r.err, <<>>))
                      ELSE SetProc(p, [Proc(p) EXCEPT !.pc = "writeMeta"])
    /\ UNCHANGED <<last, track, created, srv, au>>

\* src/unnamed/part_002:213-224
PutWriteMeta(p, now) ==
    /\ Proc(p).op = "Put" /\ Proc(p).pc = "writeMeta"
    /\ \E w \in {WriteFile(fs, ObjectDir(Proc(p).bucket, Proc(p).key) \o <<SLASH>> \o MetaFile,
                           Marshal([ContentHash |-> Sha256Hash(Proc(p).body),
                                    ContentSize |-> ByteLen(Proc(p).body),
                                    OriginalKey |-> Proc(p).key, LastModified |-> now]))} :
          /\ fs' = w.fs
          /\ calls' = IF w.err # Nil
                      THEN SetProc(p, Return(p, PlainError("could not write metadata.json"), <<>>))
                      ELSE Changed(p, [Proc(p) EXCEPT !.pc = "writeBody"])
    /\ UNCHANGED <<last, track, created, srv, au>>

\* src/unnamed/part_002:226
PutWriteBody(p) ==
    /\ Proc(p).op = "Put" /\ Proc(p).pc = "writeBody"
    /\ \E w \in {WriteFile(fs, ObjectDir(Proc(p).bucket, Proc(p).key) \o <<SLASH>> \o BodyFile,
                           Proc(p).body)} :
          /\ fs' = w.fs
          /\ calls' = Changed(p, Return(p, w.err, <<>>))
    /\ UNCHANGED <<last, track, created, srv, au>>

\* the metadata file of the object holds what the Put of goroutine q wrote
HoldsMetadataOf(f, q) ==
    \E b \in {ReadFile(f, ObjectDir(Proc(q).bucket, Proc(q).key) \o <<SLASH>> \o MetaFile)} :
        /\ b.err = Nil /\ IsMetadataJson(b.data)
        /\ Unmarshal(b.data).ContentHash = Sha256Hash(Proc(q).body)

\* src/unnamed/part_002:175-179; raced: the body is read after another
\* goroutine's Put of a different body wrote the metadata and before it
\* writes its body
GetReadBody(p) ==
    /\ Proc(p).op = "Get" /\ Proc(p).pc = "readBody"
    /\ \E r \in {ReadFile(fs, ObjectDir(Proc(p).bucket, Proc(p).key) \o <<SLASH>> \o BodyFile)} :
          calls' = IF r.err # Nil
                   THEN SetProc(p, Return(p, PlainError("could not read data file"), <<>>))
                   ELSE SetProc(p, [Proc(p) EXCEPT
                           !.pc = "readMeta", !.read = r.data,
                           !.raced = \E q \in Procs \ {p} :
                                        /\ Proc(q).op = "Put" /\ Proc(q).pc = "writeBody"
                                        /\ SameObject(p, q) /\ Proc(q).body # r.data
                                        /\ HoldsMetadataOf(fs, q)])
    /\ UNCHANGED <<fs, last, track, created, srv, au>>

\* GetReadMeta as it would be without the comparison of the checksums
GetReadMetaWithoutChecksum(p) ==
    /\ Proc(p).op = "Get" /\ Proc(p).pc = "readMeta"
    /\ \E b \in {ReadFile(fs, ObjectDir(Proc(p).bucket, Proc(p).key) \o <<SLASH>> \o MetaFile)} :
          calls' = SetProc(p,
                      IF b.err # Nil
                      THEN Return(p, PlainError("could not read metadata file"), <<>>)
                      ELSE IF ~IsMetadataJson(b.data)
                      THEN Return(p, PlainError("could not unmarshal metadata.json content"), <<>>)
                      ELSE Return(p, Nil, Proc(p).read))
    /\ UNCHANGED <<fs, last, track, created, srv, au>>

\* GetReadMeta as it would be if it returned b, the metadata, for body
GetReadMetaReturnsMetadata(p) ==
    /\ Proc(p).op = "Get" /\ Proc(p).pc = "readMeta"
    /\ \E b \in {ReadFile(fs, ObjectDir(Proc(p).bucket, Proc(p).key) \o <<SLASH>> \o MetaFile)} :
          calls' = SetProc(p,
                      IF b.err # Nil
                      THEN Return(p, PlainError("could not read metadata file"), <<>>)
                      ELSE IF ~IsMetadataJson(b.data)
                      THEN Return(p, PlainError("could not unmarshal metadata.json content"), <<>>)
                      ELSE IF Sha256Hash(Proc(p).read) # Unmarshal(b.data).ContentHash
                      THEN Return(p, ErrChecksum, <<>>)
                      ELSE Return(p, Nil, b.data))
    /\ UNCHANGED <<fs, last, track, created, srv, au>>

\* src/unnamed/part_002:181-194
GetReadMeta(p) ==
    /\ Proc(p).op = "Get" /\ Proc(p).pc = "readMeta"
    /\ \E b \in {ReadFile(fs, ObjectDir(Proc(p).bucket, Proc(p).key) \o <<SLASH>> \o MetaFile)} :
          calls' = SetProc(p,
                      IF b.err # Nil
                      THEN Return(p, PlainError("could not read metadata file"), <<>>)
                      ELSE IF ~IsMetadataJson(b.data)
                      THEN Return(p, PlainError("could not unmarshal metadata.json content"), <<>>)
                      ELSE IF Sha256Hash(Proc(p).read) # Unmarshal(b.data).ContentHash
                      THEN Return(p, ErrChecksum, <<>>)
                      ELSE Return(p, Nil, Proc(p).read))
    /\ UNCHANGED <<fs, last, track, created, srv, au>>

\* src/unnamed/part_002:245, os.RemoveAll: a missing path is no error, an
\* empty directory is removed at once, else its entries are listed
DeleteRemove(p) ==
    /\ Proc(p).op = "Delete" /\ Proc(p).pc = "remove"
    /\ \E st \in {Stat(fs, ObjectDir(Proc(p).bucket, Proc(p).key))} :
          IF st.err # Nil
          THEN /\ calls' = SetProc(p, Return(p, Nil, <<>>))
               /\ fs' = fs
          ELSE IF Children(fs, st.path) = {}
          THEN /\ calls' = SetProc(p, Return(p, Nil, <<>>))
               /\ fs' = Without(fs, {st.path})
          ELSE /\ calls' = SetProc(p, [Proc(p) EXCEPT !.pc = "unlink",
                                                      !.names = Children(fs, st.path)])
               /\ fs' = fs
    /\ UNCHANGED <<last, track, created, srv, au>>

\* os.RemoveAll unlinks one listed entry
DeleteUnlink(p) ==
    /\ Proc(p).op = "Delete" /\ Proc(p).pc = "unlink"
    /\ \E n \in Proc(p).names :
          /\ fs' = Without(fs, {q \in DOMAIN fs : IsUnder(q, n)})
          /\ calls' = Changed(p, [Proc(p) EXCEPT
                                     !.names = Proc(p).names \ {n},
                                     !.pc = IF Proc(p).names = {n} THEN "rmdir" ELSE "unlink"])
    /\ UNCHANGED <<last, track, created, srv, au>>

\* os.RemoveAll removes the directory itself, which fails when an entry was
\* added since the listing
DeleteRmdir(p) ==
    /\ Proc(p).op = "Delete" /\ Proc(p).pc = "rmdir"
    /\ \E st \in {Stat(fs, ObjectDir(Proc(p).bucket, Proc(p).key))} :
          IF st.err # Nil
          THEN /\ calls' = SetProc(p, Return(p, Nil, <<>>))
               /\ fs' = fs
          ELSE IF Children(fs, st.path) = {}
          THEN /\ calls' = SetProc(p, Return(p, Nil, <<>>))
               /\ fs' = Without(fs, {st.path})
          ELSE /\ calls' = SetProc(p, Return(p, PlainError("directory not empty"), <<>>))
               /\ fs' = fs
    /\ UNCHANGED <<last, track, created, srv, au>>

NextConcurrent ==
    \E p \in Procs :
        \/ Start(p, "NewBucket", NameAbc, <<>>, <<>>)
        \/ \E body \in Bodies : Start(p, "Put", NameAbc, KeyK, body)
        \/ Start(p, "Get", NameAbc, KeyK, <<>>)
        \/ Start(p, "Delete", NameAbc, KeyK, <<>>)
        \/ NewBucketCheck(p)
        \/ NewBucketMkdir(p)
        \/ CheckBucket(p)
        \/ CheckObject(p)
        \/ PutMkdir(p)
        \/ \E now \in Times : PutWriteMeta(p, now)
        \/ PutWriteBody(p)
        \/ GetReadBody(p)
        \/ GetReadMeta(p)
        \/ DeleteRemove(p)
        \/ DeleteUnlink(p)
        \/ DeleteRmdir(p)
        \/ Finish(p)

SpecConcurrent == Init /\ [][NextConcurrent]_vars

(***************************************************************************)
(* validName applied to names: every name of up to MaxShortName runes over *)
(* NameAlphabet, the names of TestValidName (src/unnamed/part_000:12-61),  *)
(* names around each prefix, suffix and length rule.                       *)
(***************************************************************************)
NameAlphabet == {"a", "A", "1", "-", ".", "_", "U+00E9"}
ShortNames == {Str(t) : t \in UNION {[1..n -> NameAlphabet] : n \in 1..MaxShortName}}
ValidExamples ==
    {Str(<<"e", "x", "a", "m", "p", "l", "e", ".", "c", "o", "m">>),
     Str(<<"w", "w", "w", ".", "e", "x", "a", "m", "p", "l", "e", ".", "c", "o", "m">>),
     Str(<<"m", "y", ".", "e", "x", "a", "m", "p", "l", "e", ".", "s", "3", ".", "b", "u", "c", "k", "e", "t">>)}
InvalidExamples ==
    {Str(<<"a", "b">>),
     Str(<<"a", "m", "z", "n", "-", "s", "3", "-", "d", "e", "m", "o", "-", "b", "u", "c", "k", "e", "t">>),
     Str(<<"a", "m", "z", "n", "_", "s", "3", "_", "d", "e", "m", "o", "_", "b", "u", "c", "k", "e", "t">>),
     Str(<<"A", "m", "z", "n", "S", "3", "D", "e", "m", "o", "B", "u", "c", "k", "e", "t">>),
     Str(<<"a", "m", "z", "n", "-", "s", "3", "-", "d", "e", "m", "o", "-", "b", "u", "c", "k", "e", "t", "-">>),
     Str(<<"e", "x", "a", "m", "p", "l", "e", ".", ".", "c", "o", "m">>),
     Str(<<"1", "9", "2", ".", "1", "6", "8", ".", "5", ".", "4">>)}
RuleExamples ==
    {Str(<<"x", "n", "-", "-", "a", "b", "c">>),
     Str(<<"s", "t", "h", "r", "e", "e", "-", "a", "b", "c">>),
     Str(<<"a", "b", "c", "-", "s", "3", "a", "l", "i", "a", "s">>),
     Str(<<"a", "b", "c", "-", "-", "o", "l", "-", "s", "3">>),
     Str(<<"a", "b", "c", "-", "-", "x", "-", "s", "3">>),
     Str(<<"a", "b", "c", "-", "-", "t", "a", "b", "l", "e", "-", "s", "3">>),
     Str(<<"1", ".", "2", ".", "3">>),
     Str(<<"2", "5", "6", ".", "1", ".", "1", ".", "1">>),
     Str(<<"1", ".", "1", ".", "1", ".", "1">>),
     Str(<<"0", "1", ".", "1", ".", "1", ".", "1">>),
     Str(<<"a", ".", "b", "-", "c">>),
     Str(<<"x", "n", "-", "a", "b", "c">>)}
LongNames == {[i \in 1..n |-> <<"a">>] : n \in {MaxNameLen - 1, MaxNameLen, MaxNameLen + 1}}
NameInputs == ShortNames \cup ValidExamples \cup InvalidExamples \cup RuleExamples \cup LongNames

InitValidName == /\ fs = InitFs
                 /\ last \in {[NoCall EXCEPT !.op = "name", !.bucket = n] : n \in NameInputs}
                 /\ track = NoTrack
                 /\ created = {}
                 /\ calls = NoCalls
                 /\ srv = SrvIdle
                 /\ au = AuIdle

CallValidName ==
    /\ last.op = "name"
    /\ last' = [last EXCEPT !.op = "validName", !.err = validName(last.bucket)]
    /\ UNCHANGED <<fs, track, created, calls, srv, au>>

NextValidName == CallValidName

SpecValidName == InitValidName /\ [][NextValidName]_vars

(***************************************************************************)
(* canonicalUri and canonicalQuery applied to request URIs: every string   *)
(* of up to MaxUriLen bytes over UriAlphabet.                              *)
(***************************************************************************)
UriAlphabet == {"/", "?", "&", "=", "a", "b"}
UriInputs == {Str(t) : t \in UNION {[1..n -> UriAlphabet] : n \in 0..MaxUriLen}}

InitCanonical == /\ fs = InitFs
                 /\ last = NoCall
                 /\ track = NoTrack
                 /\ created = {}
                 /\ calls = NoCalls
                 /\ srv = SrvIdle
                 /\ au \in {[AuIdle EXCEPT !.pc = "ready", !.uri = u] : u \in UriInputs}

CallCanonicalUri ==
    /\ au.pc = "ready"
    /\ au' = [au EXCEPT !.pc = "uri", !.first.request = canonicalUri(au.uri)]
    /\ UNCHANGED <<fs, last, track, created, calls, srv>>

CallCanonicalQuery ==
    /\ au.pc = "ready"
    /\ au' = [au EXCEPT !.pc = "query", !.first.request = canonicalQuery(au.uri)]
    /\ UNCHANGED <<fs, last, track, created, calls, srv>>

NextCanonical == CallCanonicalUri \/ CallCanonicalQuery

SpecCanonical == InitCanonical /\ [][NextCanonical]_vars

(***************************************************************************)
(* The state machine of the authenticator: one request is validated, then  *)
(* validated again with one header changed.                                *)
(***************************************************************************)
InitAuth == /\ fs = InitFs
            /\ last = NoCall
            /\ track = NoTrack
            /\ created = {}
            /\ calls = NoCalls
            /\ srv = SrvIdle
            /\ au \in AuthInputs

CallValidate ==
    /\ au.pc = "ready"
    /\ au' = [au EXCEPT !.pc = "done",
                        !.first = RunValidate(au.method, au.uri, au.headers, au.body)]
    /\ UNCHANGED <<fs, last, track, created, calls, srv>>

\* the same request with the value of one header changed, validated again
CallValidateChanged(name, value) ==
    /\ au.pc = "done"
    /\ name \in DOMAIN au.headers
    /\ value # au.headers[name]
    /\ au' = [au EXCEPT !.pc = "compared",
                        !.change = [name |-> name, value |-> value],
                        !.second = RunValidate(au.method, au.uri,
                                               [au.headers EXCEPT ![name] = value], au.body)]
    /\ UNCHANGED <<fs, last, track, created, calls, srv>>

ChangedValues(name) ==
    IF name = HeaderAuthorization
    THEN {AuthorizationText(au.choice, OtherScope, au.method, au.uri, PlainHeaders, au.body)}
    ELSE HeaderValues

NextAuth == \/ CallValidate
            \/ \E name \in {HeaderHost, HeaderDate, HeaderExtra, HeaderAuthorization} :
                  \E value \in ChangedValues(name) : CallValidateChanged(name, value)

SpecAuth == InitAuth /\ [][NextAuth]_vars

(***************************************************************************)
(* The HTTP server (src/server/server.go).  It serves one request at a     *)
(* time here; srv.pc is the position of that request in middleware, and    *)
(* srv.trace records what has been done for it.                            *)
(***************************************************************************)
StatusOK == 200
StatusCreated == 201
StatusNoContent == 204
StatusUnauthorized == 401
StatusMethodNotAllowed == 405
StatusInternalServerError == 500

MethodGet == << <<"GET">> >>
MethodPut == << <<"PUT">> >>
MethodDelete == << <<"DELETE">> >>
MethodPost == << <<"POST">> >>

\* the handlers New registers per route; a method without handler is nil
routes == [bucket |-> (MethodPut :> "createBucket"),
           object |-> (MethodGet :> "getObject") @@ (MethodPut :> "putObject")
                      @@ (MethodDelete :> "deleteObject")]

\* header names as net/http keeps them, and strings.ToLower of them
KeyAuthorization == << <<"Authorization">> >>
KeyDate == << <<"X-Amz-Date">> >>
KeyContentSha == << <<"X-Amz-Content-Sha256">> >>
ToLower(k) ==
    CASE k = KeyAuthorization -> HeaderAuthorization
      [] k = KeyDate -> HeaderDate
      [] k = KeyContentSha -> HeaderContentSha
      [] OTHER -> k
Canonical(n) ==
    CASE n = HeaderAuthorization -> KeyAuthorization
      [] n = HeaderDate -> KeyDate
      [] n = HeaderContentSha -> KeyContentSha
      [] OTHER -> n

\* the header map of middleware: host first, then every header lowercased
LowerHeaders(host, header) ==
    [n \in {HeaderHost} \cup {ToLower(k) : k \in DOMAIN header} |->
        IF \E k \in DOMAIN header : ToLower(k) = n
        THEN header[CHOOSE k \in DOMAIN header : ToLower(k) = n]
        ELSE host]

\* writeError as it would be if it sent the text of every error
writeErrorSendsText(err) ==
    [status |-> IF err.type = "Error" THEN err.Status ELSE StatusInternalServerError,
     text |-> err.msg]

\* the status and the text writeError sends for an error of the store
writeError(err) ==
    IF err.type = "Error" THEN [status |-> err.Status, text |-> err.msg]
    ELSE [status |-> StatusInternalServerError, text |-> "internal server error"]

\* the requests clients send
ServerChoices ==
    {c \in AuthChoices :
        /\ c.signed = HeaderHost \o <<SEMICOLON>> \o HeaderDate
        /\ \/ c.present = "absent" /\ c.algo = "ok" /\ c.key = "ok" /\ c.sig = "ok"
           \/ c.present = "present" /\ c.algo = "ok"
              /\ <<c.key, c.sig>> \in {<<"ok", "ok">>, <<"ok", "other">>, <<"other", "ok">>}}

ClaimedHash(claimed, sent) ==
    CASE claimed = "ok" -> Sha256Hash(sent)
      [] claimed = "other" -> Sha256Hash(Str(<<"o", "t", "h", "e", "r">>))

\* a path segment as the client sends it: the router splits the escaped path
\* at '/' and unescapes each segment, so an escaped '/' stays in PathValue
PathEscape(seg) == [i \in 1..Len(seg) |-> IF seg[i] = SLASH THEN <<"%2F">> ELSE seg[i]]

Request(route, method, name, key, sent, claimed, c, readFails) ==
    LET uri == IF route = "bucket" THEN <<SLASH>> \o PathEscape(name)
               ELSE <<SLASH>> \o PathEscape(name) \o <<SLASH>> \o PathEscape(key)
        plain == IF claimed = "none"
                 THEN (HeaderHost :> Str(<<"v">>)) @@ (HeaderDate :> Str(<<"v">>))
                 ELSE (HeaderHost :> Str(<<"v">>)) @@ (HeaderDate :> Str(<<"v">>))
                      @@ (HeaderContentSha :> ClaimedHash(claimed, sent))
        signed == RequestHeaders(c, Scope, method, uri, plain, Sha256Hash(sent))
    IN  [SrvIdle EXCEPT !.route = route, !.Method = method, !.name = name, !.key = key,
                        !.RequestURI = uri, !.Host = signed[HeaderHost],
                        !.Header = [k \in {Canonical(n) : n \in DOMAIN signed \ {HeaderHost}}
                                       |-> signed[ToLower(k)]],
                        !.sent = sent, !.readFails = readFails, !.choice = c,
                        !.claimed = claimed]

Requests ==
    {Request(route, method, NameAbc, KeyK, sent, claimed, c, readFails) :
        route \in {"bucket", "object"},
        method \in {MethodGet, MethodPut, MethodDelete, MethodPost},
        sent \in Bodies, claimed \in {"none", "ok", "other"}, c \in ServerChoices,
        readFails \in BOOLEAN}

\* http.Error and the final writes of a handler
Respond(status, text) == [srv EXCEPT !.pc = "done", !.status = status, !.written = text]

\* the router hands a request to middleware
Serve(req) ==
    /\ srv.pc = "idle"
    /\ srv' = [req EXCEPT !.pc = "method"]
    /\ UNCHANGED <<fs, last, track, created, calls, au>>

\* server.go:23-26
CheckMethod ==
    /\ srv.pc = "method"
    /\ srv' = IF srv.Method \notin DOMAIN routes[srv.route]
              THEN Respond(StatusMethodNotAllowed, "method not allowed")
              ELSE [srv EXCEPT !.pc = "read"]
    /\ UNCHANGED <<fs, last, track, created, calls, au>>

\* server.go:28-41
ReadAll ==
    /\ srv.pc = "read"
    /\ srv' = IF srv.readFails
              THEN Respond(StatusBadRequest, "could not read request body")
              ELSE [srv EXCEPT !.pc = "hash", !.body = srv.sent,
                               !.headers = LowerHeaders(srv.Host, srv.Header),
                               !.trace = Append(srv.trace, "read")]
    /\ UNCHANGED <<fs, last, track, created, calls, au>>

\* server.go:44-52
CheckContentHash ==
    /\ srv.pc = "hash"
    /\ srv' = IF Len(Lookup(srv.headers, HeaderContentSha)) < 1
              THEN Respond(StatusBadRequest, "header x-amz-content-sha256 is missing")
              ELSE IF Lookup(srv.headers, HeaderContentSha) # Sha256Hash(srv.body)
              THEN [Respond(StatusBadRequest, "content hash mismatch")
                       EXCEPT !.bodyHash = Sha256Hash(srv.body),
                              !.trace = Append(srv.trace, "hash")]
              ELSE [srv EXCEPT !.pc = "validate", !.bodyHash = Sha256Hash(srv.body),
                               !.trace = Append(srv.trace, "hash")]
    /\ UNCHANGED <<fs, last, track, created, calls, au>>

\* server.go:54-57 as it would be if the error of Validate were dropped
AuthenticateDropsError ==
    /\ srv.pc = "validate"
    /\ \E err \in {Validate(TheAuth, srv.Method, srv.RequestURI, srv.headers, srv.bodyHash)} :
          srv' = [srv EXCEPT !.pc = "handler", !.err = err,
                             !.trace = Append(srv.trace, "validate")]
    /\ UNCHANGED <<fs, last, track, created, calls, au>>

\* server.go:54-57
Authenticate ==
    /\ srv.pc = "validate"
    /\ \E err \in {Validate(TheAuth, srv.Method, srv.RequestURI, srv.headers, srv.bodyHash)} :
          srv' = IF err # Nil
                 THEN [Respond(StatusUnauthorized, "unauthorized")
                          EXCEPT !.err = err, !.trace = Append(srv.trace, "validate")]
                 ELSE [srv EXCEPT !.pc = "handler", !.err = err,
                                  !.trace = Append(srv.trace, "validate")]
    /\ UNCHANGED <<fs, last, track, created, calls, au>>

Stored(status, text) ==
    [Respond(status, text) EXCEPT !.trace = Append(srv.trace, "store")]

\* the handler got err from the store and hands it to writeError
Failed(err) ==
    [Stored(writeError(err).status, writeError(err).text) EXCEPT !.storeErr = err]

createBucket ==
    /\ srv.pc = "handler"
    /\ routes[srv.route][srv.Method] = "createBucket"
    /\ \E r \in {NewBucket(fs, srv.name)} :
          /\ fs' = r.fs
          /\ srv' = IF r.err # Nil THEN Failed(r.err)
                    ELSE Stored(StatusCreated, "CreateBucketConfiguration")
    /\ UNCHANGED <<last, track, created, calls, au>>

getObject ==
    /\ srv.pc = "handler"
    /\ routes[srv.route][srv.Method] = "getObject"
    /\ \E r \in {Get(fs, srv.name, srv.key)} :
          srv' = IF r.err # Nil THEN Failed(r.err)
                 ELSE Stored(StatusOK, r.out)
    /\ UNCHANGED <<fs, last, track, created, calls, au>>

putObject(now) ==
    /\ srv.pc = "handler"
    /\ routes[srv.route][srv.Method] = "putObject"
    /\ \E r \in {Put(fs, srv.name, srv.key, srv.body, now)} :
          /\ Cardinality(ObjectDirs(r.fs)) <= MaxObjects
          /\ fs' = r.fs
          /\ srv' = IF r.err # Nil THEN Failed(r.err)
                    ELSE Stored(StatusNoContent, "no content")
    /\ UNCHANGED <<last, track, created, calls, au>>

deleteObject ==
    /\ srv.pc = "handler"
    /\ routes[srv.route][srv.Method] = "deleteObject"
    /\ \E r \in {Delete(fs, srv.name, srv.key)} :
          /\ fs' = r.fs
          /\ srv' = IF r.err # Nil THEN Failed(r.err)
                    ELSE Stored(StatusNoContent, "no content")
    /\ UNCHANGED <<last, track, created, calls, au>>

\* the response is sent; the server waits for the next request
Done ==
    /\ srv.pc = "done"
    /\ srv' = SrvIdle
    /\ UNCHANGED <<fs, last, track, created, calls, au>>

NextServer == \/ \E req \in Requests : Serve(req)
              \/ CheckMethod
              \/ ReadAll
              \/ CheckContentHash
              \/ Authenticate
              \/ createBucket
              \/ getObject
              \/ \E now \in Times : putObject(now)
              \/ deleteObject
              \/ Done

SpecServer == Init /\ [][NextServer]_vars

(***************************************************************************)
(* The server under requests that make the store fail in every way it      *)
(* can: names the policy rejects, names that lead through an object        *)
(* directory, and bodies changed out of band.                              *)
(***************************************************************************)
NameTooShort == Str(<<"a", "b">>)
\* abc/<hex sha256 of "k">/body
NameThroughBody == NameAbc \o <<SLASH>> \o Sha256Hash(KeyK) \o <<SLASH>> \o BodyFile

BoundaryRequests ==
    {Request(route, method, name, KeyK, sent, "ok", c, FALSE) :
        route \in {"bucket", "object"},
        method \in {MethodGet, MethodPut, MethodDelete},
        name \in {NameAbc, NameTooShort, NameThroughBody},
        sent \in Bodies, c \in ServerChoices}

NextBoundary == \/ \E req \in BoundaryRequests : Serve(req)
                \/ CheckMethod
                \/ ReadAll
                \/ CheckContentHash
                \/ Authenticate
                \/ createBucket
                \/ getObject
                \/ \E now \in Times : putObject(now)
                \/ deleteObject
                \/ Done
                \/ \E p \in DOMAIN fs, data \in Bodies : srv.pc = "idle" /\ Corrupt(p, data)

SpecBoundary == Init /\ [][NextBoundary]_vars

(***************************************************************************)
(* The store called one call at a time with bucket arguments that are      *)
(* paths: the empty string, "..", an object directory and a body file.     *)
(***************************************************************************)
\* abc/<hex sha256 of "k">
NameObject == NameAbc \o <<SLASH>> \o Sha256Hash(KeyK)
NameDotDot == <<PERIOD, PERIOD>>
PathNames == {NameAbc, NameTooShort, NameEmpty}
PathBuckets == {NameAbc, NameEmpty, NameDotDot, NameObject, NameThroughBody}

NextPaths ==
    \/ \E name \in PathNames : CallNewBucket(name)
    \/ \E bucket \in PathBuckets, body \in Bodies, now \in Times : CallPut(bucket, KeyK, body, now)
    \/ \E bucket \in PathBuckets : CallGet(bucket, KeyK)
    \/ \E bucket \in PathBuckets : CallDelete(bucket, KeyK)

SpecPaths == Init /\ [][NextPaths]_vars

(***************************************************************************)
(* Properties of the store.                                                *)
(***************************************************************************)
Ok(body) == [err |-> Nil, out |-> body]

\* C1: a successful Put(bucket, key, body) on a bucket made by NewBucket
\* under a name validName accepts, followed by Get(bucket, key) with no other
\* Put, Delete or corruption on that key in between, returns exactly body.
RoundTrip ==
    (/\ last.op = "Get" /\ last.key = KeyK
     /\ track.kind = "put" /\ track.bucket = last.bucket
     /\ validName(last.bucket) = Nil /\ last.bucket \in created)
    => (last.err = Nil /\ last.out = track.body)

RoundTripWitness ==
    /\ last.op = "Get" /\ last.key = KeyK
    /\ track.kind = "put" /\ track.bucket = last.bucket
    /\ validName(last.bucket) = Nil /\ last.bucket \in created
    /\ last.out = track.body /\ track.body = <<>>
    /\ Cardinality(ObjectDirs(fs)) = 2

\* C2: right after two successful Puts in a row on the same bucket and key,
\* Get returns the second body, and a Put that follows a successful Put on
\* the same bucket and key does not fail.
Overwrite ==
    (last.op = "Put" /\ last.prev # <<>>)
    => (last.err = Nil /\ Get(fs, last.bucket, last.key) = Ok(last.body))

OverwriteWitness ==
    /\ last.op = "Put" /\ last.prev # <<>> /\ last.prev[1] # last.body
    /\ Get(fs, last.bucket, last.key) = Ok(last.body)

\* C3: after a successful Delete(bucket, key), and until a later Put on that
\* key, Get(bucket, key) and a second Delete(bucket, key) both fail with
\* ObjectNotFound.
DeletionFinality ==
    track.kind = "del"
    => /\ Get(fs, track.bucket, KeyK).err = ErrObjectNotFound
       /\ Delete(fs, track.bucket, KeyK).err = ErrObjectNotFound

\* the object directory of (bucket, key) holds a body that is not the one
\* whose hash its metadata records
StoredBodyDiffers(f, bucket, key) ==
    LET dir == ObjectDir(bucket, key)
        body == ReadFile(f, dir \o <<SLASH>> \o BodyFile)
        meta == ReadFile(f, dir \o <<SLASH>> \o MetaFile)
    IN  /\ body.err = Nil /\ meta.err = Nil /\ IsMetadataJson(meta.data)
        /\ \E b \in Bodies : /\ Unmarshal(meta.data).ContentHash = Sha256Hash(b)
                             /\ body.data # b

\* C4: Get on an object whose stored body differs from the body whose hash
\* the metadata records fails with the checksum error, which is not
\* ObjectNotFound, and returns no body.
IntegrityDetection ==
    (last.op = "Get" /\ StoredBodyDiffers(fs, last.bucket, last.key))
    => (last.err = ErrChecksum /\ last.err # ErrObjectNotFound /\ last.out = <<>>)

IntegrityDetectionWitness ==
    /\ last.op = "Get" /\ StoredBodyDiffers(fs, last.bucket, last.key)
    /\ last.err = ErrChecksum

\* C5: a successful Put(bucketA, k, body) never makes Get(bucketB, k) return
\* an object for a bucket argument bucketB that differs from bucketA.
BucketIsolation ==
    [][(last'.op = "Put" /\ last'.err = Nil)
       => \A b \in Buckets \ {last'.bucket} :
             Get(fs', b, last'.key).err = Nil
             => Get(fs', b, last'.key) = Get(fs, b, last'.key)]_vars

\* the naming policy as the specification words it (section 4.2)
NamingPolicy(name) ==
    /\ ByteLen(name) >= 3 /\ ByteLen(name) <= 63
    /\ \A i \in 1..Len(name) :
          /\ Len(name[i]) = 1
          /\ name[i][1] \in LowerAscii \cup DigitAscii \cup {".", "-"}
    /\ name[1][1] \in LowerAscii \cup DigitAscii
    /\ name[Len(name)][1] \in LowerAscii \cup DigitAscii
    /\ ~Contains(name, <<PERIOD, PERIOD>>)
    /\ ~ParseIP(name)
    /\ \A i \in 1..Len(prefix) : ~HasPrefix(name, prefix[i].p)
    /\ \A i \in 1..Len(suffix) : ~HasSuffix(name, suffix[i].s)

IsBucketNameInvalid(e) == e.type = "Error" /\ e.Status = StatusBadRequest
IsBucketAlreadyExists(e) ==
    e = Error("requested bucket name is not available", StatusConflict)

\* C6, outcome: NewBucket fails with BucketNameInvalid when the name violates
\* the naming policy, whether or not the path exists.
NewBucketRejects ==
    (last.op = "NewBucket" /\ ~NamingPolicy(last.bucket)) => IsBucketNameInvalid(last.err)

\* C6, the rest: a policy-conforming name that exists fails with
\* BucketAlreadyExists, a failed NewBucket leaves the store unchanged, a
\* successful one creates an empty directory and removes nothing.
NewBucketEffect ==
    [][last'.op = "NewBucket"
       => /\ (NamingPolicy(last'.bucket) /\ existPath(fs, last'.bucket))
             => IsBucketAlreadyExists(last'.err)
          /\ last'.err # Nil => fs' = fs
          /\ last'.err = Nil
             => /\ ~existPath(fs, last'.bucket)
                /\ \A p \in DOMAIN fs : p \in DOMAIN fs' /\ fs'[p] = fs[p]
                /\ \A p \in DOMAIN fs' \ DOMAIN fs :
                      fs'[p] = DirNode /\ ~\E q \in DOMAIN fs' : q # p /\ IsUnder(q, p)]_vars

\* C6: NewBucket(name) fails with BucketNameInvalid on a policy violation
\* (checked first), with BucketAlreadyExists when the name exists, and else
\* creates an empty bucket; a failure leaves the store unchanged.
NewBucketContract == []NewBucketRejects /\ NewBucketEffect

\* C7: Put, Get and Delete fail with BucketNotFound when the bucket argument
\* was not created by NewBucket; Get and Delete fail with ObjectNotFound when
\* the bucket was created and no object directory exists for the key.
ExistenceChecks ==
    [][last'.op \in {"Put", "Get", "Delete"}
       => /\ last'.bucket \notin created => last'.err = ErrBucketNotFound
          /\ (/\ last'.op \in {"Get", "Delete"}
              /\ last'.bucket \in created
              /\ ~existPath(fs, last'.bucket \o <<SLASH>> \o Sha256Hash(last'.key)))
             => last'.err = ErrObjectNotFound]_vars

(***************************************************************************)
(* Properties of the authenticator.                                        *)
(***************************************************************************)
\* C9: Validate reports exactly one outcome, decided in the order missing
\* header, unsupported algorithm, invalid access key, invalid signature, and
\* succeeds exactly when the computed signature equals the Signature field.
ValidateOutcome ==
    au.pc = "done"
    => /\ au.first.err = ExpectedOutcome(au.choice)
       /\ au.first.err \in {ErrMissing, ErrAlgorithm, ErrAccessKey, ErrSignature, Nil}
       /\ au.first.err = Nil
          <=> (/\ au.first.reached
               /\ au.first.signature
                  = ClientSignature(IF au.choice.sig = "ok" THEN TheAuth.secretKey
                                    ELSE OtherAuth.secretKey,
                                    Scope, au.method, au.uri, PlainHeaders,
                                    au.choice.signed, au.body))

ValidateOutcomeWitness ==
    /\ au.pc = "done"
    /\ au.choice.present = "present" /\ au.choice.algo = "ok"
    /\ au.choice.key = "other" /\ au.choice.sig = "other"
    /\ au.first.err = ErrAccessKey

SignedNames == Split(au.choice.signed, SEMICOLON)
IsSigned(name) == \E i \in 1..Len(SignedNames) : SignedNames[i] = name

\* C10 as claimed: changing a header that SignedHeaders does not list leaves
\* the computed signature unchanged, and changing one that it lists changes
\* the canonical request.
SignedHeaderDependence ==
    (au.pc = "compared" /\ au.first.reached /\ au.second.reached)
    => /\ ~IsSigned(au.change.name) => au.second.signature = au.first.signature
       /\ IsSigned(au.change.name) => au.second.request # au.first.request

\* C10 as amended: the same for every unlisted header but x-amz-date and
\* authorization, and for a listed header whose value changes by more than
\* surrounding white space.
SignedHeaderDependenceAmended ==
    (au.pc = "compared" /\ au.first.reached /\ au.second.reached)
    => /\ (/\ ~IsSigned(au.change.name)
           /\ au.change.name \notin {HeaderDate, HeaderAuthorization})
          => au.second.signature = au.first.signature
       /\ (/\ IsSigned(au.change.name)
           /\ TrimSpace(au.change.value) # TrimSpace(au.headers[au.change.name]))
          => au.second.request # au.first.request

SignedHeaderDependenceWitness ==
    /\ au.pc = "compared" /\ au.first.reached /\ au.second.reached
    /\ au.first.err = Nil
    /\ au.change.name = HeaderHost /\ IsSigned(HeaderHost)
    /\ TrimSpace(au.change.value) # TrimSpace(au.headers[HeaderHost])
    /\ au.second.request # au.first.request
    /\ au.second.err = ErrSignature

(***************************************************************************)
(* Properties of the server.                                               *)
(***************************************************************************)
MiddlewareOrder == <<"read", "hash", "validate", "store">>

\* the request in service was signed by the holder of the configured keys
\* over the body it carries
RequestIsAuthentic ==
    /\ ExpectedOutcome(srv.choice) = Nil
    /\ srv.claimed = "ok"
    /\ ~srv.readFails

GateOrder ==
    /\ Len(srv.trace) <= Len(MiddlewareOrder)
    /\ srv.trace = SubSeq(MiddlewareOrder, 1, Len(srv.trace))
    /\ Len(srv.trace) >= 2 => srv.bodyHash = Sha256Hash(srv.sent)
    /\ Len(srv.trace) >= 3 => Lookup(srv.headers, HeaderContentSha) = srv.bodyHash
    /\ Len(srv.trace) = 4 => srv.err = Nil /\ RequestIsAuthentic

GateStep ==
    fs' # fs => /\ srv.trace = SubSeq(MiddlewareOrder, 1, 3)
                /\ srv.err = Nil
                /\ RequestIsAuthentic
                /\ srv'.trace = MiddlewareOrder

\* C8: for a request to a bucket or object endpoint the order is body read,
\* body hash computed and checked against x-amz-content-sha256, Validate, and
\* only after Validate succeeded the store operation; no store operation is
\* performed for a request whose Validate call failed or was not reached.
AuthenticationGate == []GateOrder /\ [][GateStep]_vars

AuthenticationGateWitness ==
    /\ srv.trace = MiddlewareOrder
    /\ srv.route = "object" /\ srv.Method = MethodPut
    /\ srv.status = StatusNoContent
    /\ existPath(fs, srv.name \o <<SLASH>> \o Sha256Hash(srv.key))

(***************************************************************************)
(* Properties of the responses.                                            *)
(***************************************************************************)
\* C11: every failure of Validate is answered with the same unauthorized
\* response; BucketNameInvalid is answered as bad request, BucketAlreadyExists
\* as conflict, BucketNotFound and ObjectNotFound as not found, and the
\* checksum error and every other error as internal with a generic text.
ErrorClassification ==
    srv.pc = "done"
    => /\ srv.err # Nil
          => srv.status = StatusUnauthorized /\ srv.written = "unauthorized"
       /\ IsBucketNameInvalid(srv.storeErr) => srv.status = StatusBadRequest
       /\ IsBucketAlreadyExists(srv.storeErr) => srv.status = StatusConflict
       /\ srv.storeErr \in {ErrBucketNotFound, ErrObjectNotFound}
          => srv.status = StatusNotFound
       /\ (srv.storeErr = ErrChecksum \/ srv.storeErr.type = "error")
          => /\ srv.status = StatusInternalServerError
             /\ srv.written = "internal server error"
             /\ srv.written # srv.storeErr.msg

ErrorClassificationWitness ==
    /\ srv.pc = "done"
    /\ srv.storeErr.type = "error" /\ srv.storeErr # ErrChecksum
    /\ srv.status = StatusInternalServerError

(***************************************************************************)
(* Properties of validName.                                                *)
(***************************************************************************)
\* C12: validName accepts a name if and only if the name satisfies the
\* naming policy (3 to 63 bytes, lowercase ASCII letters, ASCII digits, '.'
\* and '-' only, first and last a letter or digit, no '..', no IPv4 address,
\* none of the prefixes and suffixes); the names of the test are accepted
\* and rejected as listed.
ValidNamePolicy ==
    last.op = "validName"
    => /\ last.err = Nil <=> NamingPolicy(last.bucket)
       /\ last.bucket \in ValidExamples => last.err = Nil
       /\ last.bucket \in InvalidExamples => last.err # Nil

(***************************************************************************)
(* Properties of the canonical URI and the canonical query.                *)
(***************************************************************************)
\* the position of the first '?' of a URI, Len(uri) + 1 when it has none
FirstQuestion(uri) ==
    IF \E i \in 1..Len(uri) : uri[i] = QUESTION
    THEN CHOOSE i \in 1..Len(uri) : uri[i] = QUESTION /\ \A j \in 1..(i - 1) : uri[j] # QUESTION
    ELSE Len(uri) + 1
BeforeQuestion(uri) == SubSeq(uri, 1, FirstQuestion(uri) - 1)
AfterQuestion(uri) == SubSeq(uri, FirstQuestion(uri) + 1, Len(uri))

\* C13: the canonical URI is the part of the URI before the first '?', and
\* '/' whenever that part is empty.
CanonicalUriRule ==
    au.pc = "uri"
    => au.first.request = (IF BeforeQuestion(au.uri) = <<>> THEN <<SLASH>>
                           ELSE BeforeQuestion(au.uri))

Occurrences(tokens, t) == Cardinality({i \in 1..Len(tokens) : tokens[i] = t})
SameTokens(a, b) ==
    /\ Len(a) = Len(b)
    /\ \A i \in 1..Len(a) : Occurrences(a, a[i]) = Occurrences(b, a[i])
IsSorted(tokens) == \A i \in 1..(Len(tokens) - 1) : ~StringLess(tokens[i + 1], tokens[i])

\* C14: the canonical query is made of the tokens that '&' separates in the
\* whole portion after the first '?', sorted as strings and joined by '&'.
CanonicalQueryRule ==
    au.pc = "query"
    => /\ IsSorted(Split(au.first.request, AMPERSAND))
       /\ SameTokens(Split(au.first.request, AMPERSAND),
                     Split(AfterQuestion(au.uri), AMPERSAND))

(***************************************************************************)
(* Properties of the store under concurrent calls.                         *)
(***************************************************************************)
\* C15: a Get that reads the body and the metadata between the metadata
\* write and the body write of another goroutine's Put of a different body
\* pairs the new metadata with the old body and fails with the checksum
\* error, though no body was changed out of band.
PutGetRace ==
    \A p \in Procs :
        (Proc(p).op = "Get" /\ Proc(p).pc = "done" /\ Proc(p).raced)
        => Proc(p).err = ErrChecksum

PutGetRaceWitness ==
    \E p \in Procs :
        /\ Proc(p).op = "Get" /\ Proc(p).pc = "done" /\ Proc(p).raced
        /\ Proc(p).err = ErrChecksum
        /\ \E q \in Procs \ {p} : Proc(q).op = "Put" /\ Proc(q).pc = "writeBody"

\* C16: when two concurrent NewBucket calls for the same valid name both
\* pass the existence check before either creates the directory, one of
\* them reports BucketAlreadyExists and the other reports success.
NewBucketRace ==
    \A p, q \in Procs :
        (/\ p # q
         /\ Proc(p).op = "NewBucket" /\ Proc(p).pc = "done" /\ Proc(p).raced
         /\ Proc(q).op = "NewBucket" /\ Proc(q).pc = "done" /\ Proc(q).raced)
        => \/ Proc(p).err = Nil /\ IsBucketAlreadyExists(Proc(q).err)
           \/ Proc(q).err = Nil /\ IsBucketAlreadyExists(Proc(p).err)

\* C19: a Get that returns successfully, whatever runs concurrently,
\* returns a body that was the body argument of some Put on that key.
NoFabricatedReads ==
    \A p \in Procs :
        (Proc(p).op = "Get" /\ Proc(p).pc = "done" /\ Proc(p).err = Nil)
        => Proc(p).out \in calls.puts

NoFabricatedReadsWitness ==
    \E p \in Procs :
        /\ Proc(p).op = "Get" /\ Proc(p).pc = "done" /\ Proc(p).err = Nil
        /\ Proc(p).out \in calls.puts
        /\ calls.puts # Bodies
        /\ \E q \in Procs \ {p} : Proc(q).op \in {"Put", "Delete"}
                                  /\ Proc(q).pc \in {"writeMeta", "writeBody", "unlink", "rmdir"}

(***************************************************************************)
(* Properties of the persisted layout.                                     *)
(***************************************************************************)
FilesIn(f, dir) == {q \in Children(f, dir) : ~f[q].dir}

RootPath == Stat(fs, StoragePath).path

\* C18: every directory directly under the root was created by a
\* successful NewBucket and has a name that satisfies the naming policy.
ValidNamespacesOnly ==
    \A p \in Children(fs, RootPath) :
        /\ p[Len(p)] \in created
        /\ NamingPolicy(p[Len(p)])

\* C20: a call that returns BucketNameInvalid, BucketAlreadyExists,
\* BucketNotFound or ObjectNotFound leaves the file tree as it was, and Get
\* never changes it.
UnchangedOnDomainErrors ==
    [][/\ (\/ IsBucketNameInvalid(last'.err)
           \/ IsBucketAlreadyExists(last'.err)
           \/ last'.err \in {ErrBucketNotFound, ErrObjectNotFound}) => fs' = fs
       /\ last'.op = "Get" => fs' = fs]_vars

UnchangedOnDomainErrorsWitness ==
    /\ last.op = "NewBucket" /\ IsBucketNameInvalid(last.err)
    /\ ObjectDirs(fs) # {}

(***************************************************************************)
(* Properties of the frame of Put and Delete.                              *)
(***************************************************************************)
\* what the body file and the metadata file of (bucket, key) hold
StoredObject(f, bucket, key) ==
    <<ReadFile(f, ObjectDir(bucket, key) \o <<SLASH>> \o BodyFile),
      ReadFile(f, ObjectDir(bucket, key) \o <<SLASH>> \o MetaFile)>>

\* the directories directly under the root
Namespaces(f) == {p \in Children(f, Stat(f, StoragePath).path) : f[p].dir}

\* a successful Put or Delete leaves every object under another bucket
\* argument or another key as it was
OtherObjectsUnchanged ==
    (last'.op \in {"Put", "Delete"} /\ last'.err = Nil)
    => \A b \in Buckets, k \in Keys :
          <<b, k>> # <<last'.bucket, last'.key>>
          => StoredObject(fs', b, k) = StoredObject(fs, b, k)

\* a successful Put or Delete leaves the set of buckets as it was
NamespacesUnchanged ==
    (last'.op \in {"Put", "Delete"} /\ last'.err = Nil) => Namespaces(fs') = Namespaces(fs)

\* Put, Get and Delete remove no bucket that NewBucket created
CreatedBucketsStay ==
    last'.op \in {"Put", "Get", "Delete"}
    => \A name \in created : existPath(fs, name) => existPath(fs', name)

\* C21: a successful Put(bucket, key, body) or Delete(bucket, key) changes
\* only the object under (bucket, key): the set of buckets and the body and
\* metadata of every other object are unchanged, and no Put, Get or Delete
\* removes a bucket created by NewBucket.
FrameOfPutAndDelete ==
    [][OtherObjectsUnchanged /\ NamespacesUnchanged /\ CreatedBucketsStay]_vars
====
